---- MODULE Spec2Model ----
(***************************************************************************)
(* Model of netdiff.parsers.base.BaseParser: the raw input resolver        *)
(* (to_python and its _get_* helpers), parser construction, the NetJSON    *)
(* serializer (json) and the subtraction operator (__sub__).               *)
(***************************************************************************)
EXTENDS Integers, Sequences, FiniteSets, TLC

VARIABLES
    pc,             \* position of the modelled call sequence
    cls,            \* class-level attributes of the parser class
    args,           \* arguments of the constructor / of to_python
    protocol,       \* self.protocol
    version,        \* self.version
    revision,       \* self.revision
    metric,         \* self.metric
    original_data,  \* self.original_data
    graph,          \* self.graph (NoGraph while the attribute is absent)
    raised,         \* error kind raised by the last call, NoError if none
    returned,       \* value returned by the last to_python call
    events,         \* calls made on collaborators, in order
    transport,      \* what the file system or remote end did during the last call
    fetched,        \* text delivered by the transport during the last call
    parsed,         \* arguments parse has been invoked with, in order
    out,            \* result of the last json call
    prevOut,        \* result of the json call before the last one
    nJson,          \* number of json calls made on the parser
    other,          \* graph of the right operand of a subtraction
    delta           \* result of the last subtraction

vars == <<pc, cls, args, protocol, version, revision, metric, original_data,
          graph, raised, returned, events, transport, fetched, parsed,
          out, prevOut, nJson,
          other, delta>>

----------------------------------------------------------------------------
\* Bounds of the model

MaxTextLen == 3
MaxNodes == 3
MaxEdges == 2
MaxSmallNodes == 2
MaxSmallEdges == 1
MaxJsonCalls == 2

----------------------------------------------------------------------------
\* Python values

\* Python's None for attribute values (attributes are strings otherwise)
None == "None"

NoError == "none"

\* a JSON value: t is its type, v its items (empty unless a non-empty list)
JInt == [t |-> "int", v |-> <<>>]
JDict == [t |-> "dict", v |-> <<>>]
JList(items) == [t |-> "list", v |-> items]
NoValue == [t |-> "novalue", v |-> <<>>]

\* characters a text is made of
Alphabet == {"{", "}", "[", "]", "1", " "}

Texts == UNION {[1..n -> Alphabet] : n \in 0..MaxTextLen}

\* the leading lexeme of a string reference ("" when it has none of these)
UrlPrefixes == {"http://", "https://", "telnet://", "ftp://"}
PathPrefixes == {"./", "../", "/", ".\\", "..\\", "\\", "C:\\"}

\* a string value: a leading lexeme followed by characters of Alphabet
PyStr(prefix, body) == [isStr |-> TRUE, prefix |-> prefix, body |-> body, obj |-> NoValue]
\* a value that is not a string: a dict, an int or a list
PyObj(j) == [isStr |-> FALSE, prefix |-> "", body |-> <<>>, obj |-> j]

\* the characters of a string value
Chars(s) == IF s.prefix = "" THEN s.body ELSE <<s.prefix>> \o s.body

\* the local variable `data` of to_python after the fetch: a text or None
RawText(chars) == [isNone |-> FALSE, chars |-> chars]
RawNone == [isNone |-> TRUE, chars |-> <<>>]

----------------------------------------------------------------------------
\* json.loads

RECURSIVE SkipWs(_)
SkipWs(s) == IF s # <<>> /\ Head(s) = " " THEN SkipWs(Tail(s)) ELSE s

Fail == [ok |-> FALSE, val |-> NoValue, rest |-> <<>>]

RECURSIVE ParseValue(_)
ParseValue(s) ==
    LET t == SkipWs(s) IN
    IF t = <<>> THEN Fail
    ELSE IF Head(t) = "1" THEN [ok |-> TRUE, val |-> JInt, rest |-> Tail(t)]
    ELSE IF Head(t) = "{" THEN
        LET u == SkipWs(Tail(t)) IN
        IF u # <<>> /\ Head(u) = "}"
        THEN [ok |-> TRUE, val |-> JDict, rest |-> Tail(u)]
        ELSE Fail
    ELSE IF Head(t) = "[" THEN
        LET u == SkipWs(Tail(t)) IN
        IF u # <<>> /\ Head(u) = "]"
        THEN [ok |-> TRUE, val |-> JList(<<>>), rest |-> Tail(u)]
        ELSE LET r == ParseValue(u) IN
             IF ~r.ok THEN Fail
             ELSE LET w == SkipWs(r.rest) IN
                  IF w # <<>> /\ Head(w) = "]"
                  THEN [ok |-> TRUE, val |-> JList(<<r.val>>), rest |-> Tail(w)]
                  ELSE Fail
    ELSE Fail

\* json.loads(raw): TypeError for None, ValueError for a malformed document
JsonLoads(raw) ==
    IF raw.isNone THEN [raised |-> "TypeError", value |-> NoValue]
    ELSE LET r == ParseValue(raw.chars) IN
         IF r.ok /\ SkipWs(r.rest) = <<>>
         THEN [raised |-> NoError, value |-> r.val]
         ELSE [raised |-> "ValueError", value |-> NoValue]

----------------------------------------------------------------------------
\* The transport: what the file system or the remote end does during a call.
\* fails is the stage at which the access fails ("none": it does not),
\* status the HTTP status code, text the content delivered.

Stages == {"none", "connect", "write", "read", "decode"}
Statuses == {200, 404}
Envs == [fails : Stages, status : Statuses, text : Texts]

Fetched(err, raw, evs, text) ==
    [raised |-> err, raw |-> raw, events |-> evs, text |-> text]

\* _get_file: open(path).read() inside the try block
GetFile(env) ==
    IF env.fails # "none"
    THEN Fetched("TopologyRetrievalError", RawNone, <<"open">>, <<>>)
    ELSE Fetched(NoError, RawText(env.text), <<"open">>, env.text)

\* _get_http
GetHttp(env) ==
    IF env.fails \in {"connect", "write", "read"}
    THEN Fetched("TopologyRetrievalError", RawNone, <<"requests.get">>, <<>>)
    ELSE IF env.status # 200
    THEN Fetched("TopologyRetrievalError", RawNone, <<"requests.get">>, <<>>)
    ELSE IF env.fails = "decode"
    THEN Fetched("UnicodeDecodeError", RawNone, <<"requests.get">>, <<>>)
    ELSE Fetched(NoError, RawText(env.text), <<"requests.get">>, env.text)

\* _get_telnet: only the Telnet() call is inside the try block, and the
\* function ends without a return statement
GetTelnet(env) ==
    IF env.fails = "connect"
    THEN Fetched("TopologyRetrievalError", RawNone, <<"Telnet">>, <<>>)
    ELSE IF env.fails = "write"
    THEN Fetched("OSError", RawNone, <<"Telnet", "write">>, <<>>)
    ELSE IF env.fails = "read"
    THEN Fetched("OSError", RawNone, <<"Telnet", "write", "read_all">>, <<>>)
    ELSE IF env.fails = "decode"
    THEN Fetched("UnicodeDecodeError", RawNone, <<"Telnet", "write", "read_all">>, <<>>)
    ELSE Fetched(NoError, RawNone, <<"Telnet", "write", "read_all", "close">>, env.text)

----------------------------------------------------------------------------
\* to_python

Result(err, value, evs, text) ==
    [raised |-> err, value |-> value, events |-> evs, text |-> text]

\* the try block around json.loads
Decode(f) ==
    LET r == JsonLoads(f.raw) IN
    IF r.raised = "ValueError"
    THEN Result("ParserJsonError", NoValue, f.events, f.text)
    ELSE Result(r.raised, r.value, f.events, f.text)

AfterFetch(f) ==
    IF f.raised # NoError
    THEN Result(f.raised, NoValue, f.events, f.text)
    ELSE Decode(f)

NoFetch(d) == Fetched(NoError, RawText(Chars(d)), <<>>, <<>>)

\* to_python without the isinstance checks: any non-string is returned as it is
ToPythonPassThrough(d, env) ==
    IF ~d.isStr THEN Result(NoError, d.obj, <<>>, <<>>)
    ELSE IF d.prefix \in UrlPrefixes THEN
        IF d.prefix \in {"http://", "https://"} THEN AfterFetch(GetHttp(env))
        ELSE IF d.prefix = "telnet://" THEN AfterFetch(GetTelnet(env))
        ELSE AfterFetch(NoFetch(d))
    ELSE IF d.prefix \in PathPrefixes THEN AfterFetch(GetFile(env))
    ELSE AfterFetch(NoFetch(d))

ToPython(d, env) ==
    IF ~d.isStr /\ d.obj.t = "dict" THEN Result(NoError, d.obj, <<>>, <<>>)
    ELSE IF d.isStr THEN
        IF d.prefix \in UrlPrefixes THEN
            IF d.prefix \in {"http://", "https://"} THEN AfterFetch(GetHttp(env))
            ELSE IF d.prefix = "telnet://" THEN AfterFetch(GetTelnet(env))
            ELSE AfterFetch(NoFetch(d))
        ELSE IF d.prefix \in PathPrefixes THEN AfterFetch(GetFile(env))
        ELSE AfterFetch(NoFetch(d))
    ELSE Result("ParserError", NoValue, <<>>, <<>>)

----------------------------------------------------------------------------
\* Graphs (networkx.Graph as json reads it): nodes() and edges(data=True)
\* in iteration order

NodeIds == {"a", "b", "c"}
Weights == {5, 7}

NoGraph == [absent |-> TRUE, nodes |-> <<>>, edges |-> <<>>]

SeqsUpTo(S, n) == UNION {[1..k -> S] : k \in 0..n}

Injective(q) == \A i, j \in 1..Len(q) : i # j => q[i] # q[j]

Range(q) == {q[i] : i \in 1..Len(q)}

Edges(ns) ==
    {e \in [source : Range(ns), target : Range(ns), weight : Weights] :
        e.source # e.target}

\* an undirected graph holds at most one edge per pair of endpoints
DistinctPairs(es) ==
    \A i, j \in 1..Len(es) :
        i # j => {es[i].source, es[i].target} # {es[j].source, es[j].target}

NodeSeqs(maxNodes) == {q \in SeqsUpTo(NodeIds, maxNodes) : Injective(q)}

EdgeSeqs(ns, maxEdges) == {es \in SeqsUpTo(Edges(ns), maxEdges) : DistinctPairs(es)}

GraphsOf(maxNodes, maxEdges) ==
    UNION {{[absent |-> FALSE, nodes |-> ns, edges |-> es] :
                es \in EdgeSeqs(ns, maxEdges)} : ns \in NodeSeqs(maxNodes)}

Graphs == GraphsOf(MaxNodes, MaxEdges)
SmallGraphs == GraphsOf(MaxSmallNodes, MaxSmallEdges)

----------------------------------------------------------------------------
\* __init__

\* Python truthiness of an attribute value
Truthy(x) == x # None /\ x # ""

\* `if override is not None: self.field = override`
InitFieldNotNone(default, override) == IF override # None THEN override ELSE default

\* `if override: self.field = override`, the class attribute shows otherwise
InitField(default, override) == IF Truthy(override) THEN override ELSE default

BaseParser ==
    [isBase |-> TRUE, protocol |-> None, version |-> None,
     revision |-> None, metric |-> None]

\* concrete parsers: subclasses that set class attributes and define parse
Subclasses ==
    [isBase : {FALSE}, protocol : {None, "static", "olsr"}, version : {None, "0.8"},
     revision : {None, "r1"}, metric : {None, "ETX"}]

Classes == {BaseParser} \cup Subclasses

Overrides == {None, "", "x"}

\* what parse of a concrete parser does: it builds self.graph or raises
ParseOutcomes ==
    {[raised |-> NoError, graph |-> g] : g \in SmallGraphs} \cup
    {[raised |-> "ParserFormatError", graph |-> NoGraph]}

\* the constructor up to and including self.original_data = self.to_python(data)
AfterToPython(r) ==
    /\ protocol' = cls.protocol
    /\ version' = InitField(cls.version, args.version)
    /\ revision' = InitField(cls.revision, args.revision)
    /\ metric' = InitField(cls.metric, args.metric)
    /\ returned' = r.value
    /\ fetched' = r.text
    /\ original_data' = r.value

\* the constructor without the `self.__class__ is not BaseParser` test
CallsParseAnyClass(c, r) == r.raised = NoError

\* whether the constructor goes on to call self.parse
CallsParse(c, r) == r.raised = NoError /\ ~c.isBase

ConstructWith(env) ==
    LET r == ToPython(args.data, env) IN
    /\ AfterToPython(r)
    /\ IF CallsParse(cls, r)
       THEN \E p \in ParseOutcomes :
                /\ events' = <<"to_python">> \o r.events \o <<"parse">>
                /\ parsed' = Append(parsed, r.value)
                /\ graph' = p.graph
                /\ raised' = p.raised
                /\ pc' = IF p.raised = NoError THEN "ready" ELSE "failed"
       ELSE /\ events' = <<"to_python">> \o r.events
            /\ parsed' = parsed
            /\ graph' = graph
            /\ raised' = r.raised
            /\ pc' = IF r.raised = NoError THEN "ready" ELSE "failed"

\* whether resolving the reference touches the transport at all
NeedsFetch(d) ==
    d.isStr /\ d.prefix \in (PathPrefixes \cup {"http://", "https://", "telnet://"})

NoEnv == [fails |-> "none", status |-> 200, text |-> <<>>]

CtorTexts == {<<"{", "}">>, <<"{">>}
CtorEnvs == [fails : Stages, status : Statuses, text : CtorTexts]

Construct ==
    /\ pc = "new"
    /\ IF NeedsFetch(args.data)
       THEN \E env \in CtorEnvs : ConstructWith(env) /\ transport' = env
       ELSE ConstructWith(NoEnv) /\ transport' = NoEnv
    /\ UNCHANGED <<cls, args, out, prevOut, nJson, other, delta>>

\* a direct call of to_python on a parser
Resolve ==
    /\ pc = "call"
    /\ \E env \in (IF NeedsFetch(args.data) THEN Envs ELSE {NoEnv}) :
        LET r == ToPython(args.data, env) IN
        /\ raised' = r.raised
        /\ returned' = r.value
        /\ events' = r.events
        /\ fetched' = r.text
        /\ transport' = env
    /\ pc' = "done"
    /\ UNCHANGED <<cls, args, protocol, version, revision, metric, original_data,
                   graph, parsed, out, prevOut, nJson, other, delta>>

----------------------------------------------------------------------------
\* json

\* a parser object as json and __sub__ read it
Parser(g, p, v, r, m) ==
    [graph |-> g, protocol |-> p, version |-> v, revision |-> r, metric |-> m]

Self == Parser(graph, protocol, version, revision, metric)

\* [{'id': node} for node in graph.nodes()]
NodeList(g) == [i \in 1..Len(g.nodes) |-> << <<"id", g.nodes[i]>> >>]

\* links with the endpoints in the wrong fields
LinkListSwapped(g) ==
    [i \in 1..Len(g.edges) |->
        << <<"source", g.edges[i].target>>,
           <<"target", g.edges[i].source>>,
           <<"weight", g.edges[i].weight>> >>]

\* one OrderedDict per edge of graph.edges(data=True)
LinkList(g) ==
    [i \in 1..Len(g.edges) |->
        << <<"source", g.edges[i].source>>,
           <<"target", g.edges[i].target>>,
           <<"weight", g.edges[i].weight>> >>]

\* the OrderedDict json builds
Document(s) ==
    << <<"type", "NetworkGraph">>,
       <<"protocol", s.protocol>>,
       <<"version", s.version>>,
       <<"revision", s.revision>>,
       <<"metric", s.metric>>,
       <<"nodes", NodeList(s.graph)>>,
       <<"links", LinkList(s.graph)>> >>

\* json.dumps, as the sequence of lexemes of the text it returns
DumpsStr(x) == IF x = None THEN <<"null">> ELSE <<"\"", x, "\"">>

DumpsKey(k) == <<"\"", k, "\"", ":">>

RECURSIVE DumpsNodes(_)
DumpsNodes(ns) ==
    IF ns = <<>> THEN <<>>
    ELSE (<<"{">> \o DumpsKey(ns[1][1][1]) \o DumpsStr(ns[1][1][2]) \o <<"}">>)
         \o (IF Len(ns) > 1 THEN <<",">> ELSE <<>>) \o DumpsNodes(Tail(ns))

RECURSIVE DumpsLinks(_)
DumpsLinks(ls) ==
    IF ls = <<>> THEN <<>>
    ELSE (<<"{">> \o DumpsKey(ls[1][1][1]) \o DumpsStr(ls[1][1][2]) \o <<",">>
                 \o DumpsKey(ls[1][2][1]) \o DumpsStr(ls[1][2][2]) \o <<",">>
                 \o DumpsKey(ls[1][3][1]) \o <<ToString(ls[1][3][2])>> \o <<"}">>)
         \o (IF Len(ls) > 1 THEN <<",">> ELSE <<>>) \o DumpsLinks(Tail(ls))

Dumps(doc) ==
    <<"{">> \o DumpsKey(doc[1][1]) \o DumpsStr(doc[1][2]) \o <<",">>
           \o DumpsKey(doc[2][1]) \o DumpsStr(doc[2][2]) \o <<",">>
           \o DumpsKey(doc[3][1]) \o DumpsStr(doc[3][2]) \o <<",">>
           \o DumpsKey(doc[4][1]) \o DumpsStr(doc[4][2]) \o <<",">>
           \o DumpsKey(doc[5][1]) \o DumpsStr(doc[5][2]) \o <<",">>
           \o DumpsKey(doc[6][1]) \o <<"[">> \o DumpsNodes(doc[6][2]) \o <<"]", ",">>
           \o DumpsKey(doc[7][1]) \o <<"[">> \o DumpsLinks(doc[7][2]) \o <<"]", "}">>

\* the result of a json call: an error, the document, or its text
Output(err, asDict, doc, text) ==
    [raised |-> err, asDict |-> asDict, doc |-> doc, text |-> text]

NoOutput == Output("nocall", FALSE, <<>>, <<>>)

\* the formatting check without the exemption of the static protocol
FormatCheckNoExemption(s) ==
    IF s.protocol = None THEN "NetJsonError"
    ELSE IF s.version = None THEN "NetJsonError"
    ELSE IF s.metric = None THEN "NetJsonError"
    ELSE NoError

\* the netjson formatting check: the error it raises, NoError if it passes
FormatCheck(s) ==
    IF s.protocol = None THEN "NetJsonError"
    ELSE IF s.version = None THEN "NetJsonError"
    ELSE IF s.metric = None /\ s.protocol # "static" THEN "NetJsonError"
    ELSE NoError

JsonResult(s, asDict) ==
    IF s.graph.absent THEN Output("NotImplementedError", asDict, <<>>, <<>>)
    ELSE IF FormatCheck(s) # NoError THEN Output(FormatCheck(s), asDict, <<>>, <<>>)
    ELSE IF asDict THEN Output(NoError, asDict, Document(s), <<>>)
    ELSE Output(NoError, asDict, <<>>, Dumps(Document(s)))

\* the call itself: everything json does apart from the parser's attributes
JsonCall ==
    /\ pc = "ready"
    /\ nJson < MaxJsonCalls
    /\ \E asDict \in BOOLEAN :
        /\ out' = JsonResult(Self, asDict)
        /\ raised' = JsonResult(Self, asDict).raised
    /\ prevOut' = out
    /\ nJson' = nJson + 1
    /\ UNCHANGED <<pc, cls, args, original_data, returned, events, transport,
                   fetched, parsed, other, delta>>

\* a json that consumes the graph's nodes while it iterates them
JsonConsuming ==
    /\ JsonCall
    /\ graph' = [graph EXCEPT !.nodes = <<>>]
    /\ UNCHANGED <<protocol, version, revision, metric>>

\* json assigns to no attribute of self and only iterates the graph
Json ==
    /\ JsonCall
    /\ UNCHANGED <<graph, protocol, version, revision, metric>>

----------------------------------------------------------------------------
\* __sub__ and the diff helper it calls

HasPair(g, e) ==
    \E i \in 1..Len(g.edges) :
        g.edges[i].source = e.source /\ g.edges[i].target = e.target

HasPairWithOtherWeight(g, e) ==
    \E i \in 1..Len(g.edges) :
        /\ g.edges[i].source = e.source
        /\ g.edges[i].target = e.target
        /\ g.edges[i].weight # e.weight

\* the nodes of g that h lacks, in g's order
NodesNotIn(g, h) == SelectSeq(g.nodes, LAMBDA n : n \notin Range(h.nodes))

\* the links of g whose pair h lacks or holds with a different weight
LinksNotIn(g, h) ==
    SelectSeq(g.edges, LAMBDA e : ~HasPair(h, e) \/ HasPairWithOtherWeight(h, e))

Delta(new, addedNodes, addedLinks, removedNodes, removedLinks) ==
    [protocol |-> new.protocol, version |-> new.version,
     revision |-> new.revision, metric |-> new.metric,
     added |-> [nodes |-> addedNodes, links |-> addedLinks],
     removed |-> [nodes |-> removedNodes, links |-> removedLinks]]

\* utils.diff(old, new)
Diff(old, new) ==
    Delta(new, NodesNotIn(new.graph, old.graph), LinksNotIn(new.graph, old.graph),
               NodesNotIn(old.graph, new.graph), LinksNotIn(old.graph, new.graph))

\* the operands handed to diff in the order they are written
SubResultSwapped(self, otherParser) == Diff(self, otherParser)

\* self - other
SubResult(self, otherParser) == Diff(otherParser, self)

NoParser == Parser(NoGraph, None, None, None, None)
NoDelta == Delta(NoParser, <<>>, <<>>, <<>>, <<>>)

Sub ==
    /\ pc = "ready"
    /\ delta' = SubResult(Self, other)
    /\ pc' = "subtracted"
    /\ UNCHANGED <<cls, args, protocol, version, revision, metric, original_data,
                   graph, raised, returned, events, transport, fetched, parsed,
                   out, prevOut, nJson, other>>

----------------------------------------------------------------------------
\* Specifications

NoOverrides(d) == [data |-> d, version |-> None, revision |-> None, metric |-> None]

\* nothing has been called on the parser yet
Fresh ==
    /\ raised = NoError
    /\ returned = NoValue
    /\ events = <<>>
    /\ transport = NoEnv
    /\ fetched = <<>>
    /\ parsed = <<>>
    /\ out = NoOutput
    /\ prevOut = NoOutput
    /\ nJson = 0
    /\ delta = NoDelta

\* the attributes show the class attributes
ClassAttributes ==
    /\ protocol = cls.protocol
    /\ version = cls.version
    /\ revision = cls.revision
    /\ metric = cls.metric

\* references handed to to_python
ResolveRefs ==
    {PyStr("", body) : body \in Texts} \cup
    {PyStr(prefix, <<>>) : prefix \in UrlPrefixes \cup PathPrefixes} \cup
    {PyObj(j) : j \in {JDict, JInt, JList(<<>>), JList(<<JInt>>)}}

\* to_python called on a BaseParser built from an empty dict
InitResolve ==
    /\ pc = "call"
    /\ cls = BaseParser
    /\ args \in {NoOverrides(d) : d \in ResolveRefs}
    /\ ClassAttributes
    /\ original_data = JDict
    /\ graph = NoGraph
    /\ other = NoParser
    /\ Fresh

NextResolve == Resolve

SpecResolve == InitResolve /\ [][NextResolve]_vars

\* references handed to the constructor
CtorRefs ==
    {PyObj(JDict), PyObj(JInt), PyObj(JList(<<>>)),
     PyStr("", <<"{", "}">>), PyStr("", <<"{">>),
     PyStr("./", <<>>), PyStr("http://", <<>>), PyStr("telnet://", <<>>)}

\* a parser class about to be instantiated
InitConstruct ==
    /\ pc = "new"
    /\ cls \in Classes
    /\ args \in [data : CtorRefs, version : Overrides, revision : Overrides,
                  metric : Overrides]
    /\ ClassAttributes
    /\ original_data = NoValue
    /\ graph = NoGraph
    /\ other = NoParser
    /\ Fresh

NextConstruct == Construct

SpecConstruct == InitConstruct /\ [][NextConstruct]_vars

\* a parser built from an empty dict, with the graph its parse built
InitJson ==
    /\ pc = "ready"
    /\ cls \in Classes
    /\ args = NoOverrides(PyObj(JDict))
    /\ ClassAttributes
    /\ original_data = JDict
    /\ graph \in (IF cls.isBase THEN {NoGraph} ELSE Graphs)
    /\ other = NoParser
    /\ Fresh

NextJson == Json

SpecJson == InitJson /\ [][NextJson]_vars

Olsr ==
    [isBase |-> FALSE, protocol |-> "olsr", version |-> "0.8",
     revision |-> None, metric |-> "ETX"]

\* two parsers of the same class, each with the graph its parse built
InitDiff ==
    /\ pc = "ready"
    /\ cls = Olsr
    /\ args = NoOverrides(PyObj(JDict))
    /\ ClassAttributes
    /\ original_data = JDict
    /\ graph \in SmallGraphs
    /\ other \in {Parser(g, Olsr.protocol, Olsr.version, Olsr.revision, Olsr.metric) :
                      g \in SmallGraphs}
    /\ Fresh

NextDiff == Sub

SpecDiff == InitDiff /\ [][NextDiff]_vars

----------------------------------------------------------------------------
\* Properties

\* C1: json of a parser that has a graph raises NetJsonError exactly when
\* protocol is None, or version is None, or metric is None while protocol is
\* not "static", and succeeds in every other case.
C1_SchemaValidation ==
    (nJson >= 1 /\ ~graph.absent) =>
        /\ out.raised = "NetJsonError" <=>
               \/ protocol = None
               \/ version = None
               \/ (metric = None /\ protocol # "static")
        /\ out.raised \in {"NetJsonError", NoError}

\* a static graph without a metric has been serialized
C1_Witness ==
    /\ nJson >= 1 /\ ~graph.absent
    /\ protocol = "static" /\ version # None /\ metric = None
    /\ out.raised = NoError

\* an olsr graph without a metric has been rejected
C1_WitnessOlsr ==
    /\ nJson >= 1 /\ ~graph.absent
    /\ protocol = "olsr" /\ version # None /\ metric = None
    /\ out.raised = "NetJsonError"

\* the telnet session of the last to_python call ran to its end
TelnetCompleted ==
    /\ args.data.isStr /\ args.data.prefix = "telnet://"
    /\ events = <<"Telnet", "write", "read_all", "close">>

\* C2: for a telnet reference whose session succeeds, to_python returns the
\* structured decoding of the text read from the remote end when that text is
\* valid JSON.
C2_TelnetTextIsDecoded ==
    (pc = "done" /\ TelnetCompleted
        /\ JsonLoads(RawText(fetched)).raised = NoError) =>
        /\ raised = NoError
        /\ returned = JsonLoads(RawText(fetched)).value

\* the transport failed to deliver the raw data of the reference
RetrievalFailed ==
    /\ args.data.isStr
    /\ \/ args.data.prefix \in PathPrefixes /\ transport.fails # "none"
       \/ /\ args.data.prefix \in {"http://", "https://"}
          /\ (transport.fails \in {"connect", "write", "read"} \/ transport.status # 200)
       \/ /\ args.data.prefix = "telnet://"
          /\ transport.fails \in {"connect", "write", "read"}

\* C3: every failure to retrieve raw data (unreadable file, failing HTTP
\* request, non-200 status, telnet failure while opening, writing or reading)
\* makes to_python fail with TopologyRetrievalError.
C3_RetrievalFailureKind ==
    (pc = "done" /\ RetrievalFailed) => raised = "TopologyRetrievalError"

\* the same without the telnet failures after the connection is open
C3_ExceptTelnetSession ==
    (pc = "done" /\ RetrievalFailed
        /\ ~(args.data.prefix = "telnet://" /\ transport.fails \in {"write", "read"}))
        => raised = "TopologyRetrievalError"

\* the last to_python call had content to decode
HasContent ==
    /\ args.data.isStr
    /\ \/ ~NeedsFetch(args.data)
       \/ /\ transport.fails = "none"
          /\ args.data.prefix \in {"http://", "https://"} => transport.status = 200

\* the content the last to_python call had to decode
Content == IF NeedsFetch(args.data) THEN transport.text ELSE Chars(args.data)

\* to_python decoded Content or rejected it with ParserJsonError
DecodedOrRejected ==
    IF JsonLoads(RawText(Content)).raised = NoError
    THEN raised = NoError /\ returned = JsonLoads(RawText(Content)).value
    ELSE raised = "ParserJsonError"

\* C4: content that is not a valid JSON document makes to_python fail with
\* ParserJsonError and with no other error; valid content is returned decoded.
C4_FormatErrorKind ==
    (pc = "done" /\ HasContent) => DecodedOrRejected

\* the same for every reference but the telnet ones
C4_ExceptTelnet ==
    (pc = "done" /\ HasContent /\ args.data.prefix # "telnet://") => DecodedOrRejected

\* C5: a reference that is neither a dict nor a string makes to_python fail
\* with ParserError without any file, HTTP or telnet access.
C5_UnrecognizedReference ==
    (pc = "done" /\ ~args.data.isStr /\ args.data.obj.t # "dict") =>
        /\ raised = "ParserError"
        /\ events = <<>>

\* a list has been rejected
C5_Witness ==
    /\ pc = "done"
    /\ args.data = PyObj(JList(<<JInt>>))
    /\ raised = "ParserError"

\* C6 as stated: a given override is the field's value after construction,
\* and without an override the field keeps the class attribute.
C6_AnyOverrideReplaces ==
    pc = "ready" =>
        /\ version = (IF args.version # None THEN args.version ELSE cls.version)
        /\ revision = (IF args.revision # None THEN args.revision ELSE cls.revision)
        /\ metric = (IF args.metric # None THEN args.metric ELSE cls.metric)

\* C6 amended: a non-empty override is the field's value after construction;
\* without an override, or with an empty one, the field keeps the class
\* attribute.
C6_NonEmptyOverrideReplaces ==
    pc = "ready" =>
        /\ version = (IF args.version \notin {None, ""} THEN args.version ELSE cls.version)
        /\ revision = (IF args.revision \notin {None, ""} THEN args.revision ELSE cls.revision)
        /\ metric = (IF args.metric \notin {None, ""} THEN args.metric ELSE cls.metric)

\* a class default has been replaced, another kept
C6_Witness ==
    /\ pc = "ready"
    /\ cls.version = "0.8" /\ args.version = "x" /\ version = "x"
    /\ cls.metric = "ETX" /\ args.metric = None /\ metric = "ETX"

\* the keys of the document, as they follow one another in its text
TopKeys == <<"type", "protocol", "version", "revision", "metric", "nodes", "links">>

KeysOf(text) == SelectSeq(text, LAMBDA x : x \in Range(TopKeys))

\* C7: a successful json returns the fields type, protocol, version, revision,
\* metric, nodes, links in that order, the metadata being the parser's, with
\* one {id} entry per node and one source/target/weight entry per edge, both
\* in the graph's iteration order.
C7_DocumentShape ==
    (nJson >= 1 /\ out.raised = NoError) =>
        IF out.asDict
        THEN /\ Len(out.doc) = 7
             /\ \A i \in 1..7 : Len(out.doc[i]) = 2 /\ out.doc[i][1] = TopKeys[i]
             /\ out.doc[1][2] = "NetworkGraph"
             /\ out.doc[2][2] = protocol
             /\ out.doc[3][2] = version
             /\ out.doc[4][2] = revision
             /\ out.doc[5][2] = metric
             /\ Len(out.doc[6][2]) = Len(graph.nodes)
             /\ \A i \in 1..Len(graph.nodes) :
                    out.doc[6][2][i] = << <<"id", graph.nodes[i]>> >>
             /\ Len(out.doc[7][2]) = Len(graph.edges)
             /\ \A i \in 1..Len(graph.edges) :
                    LET link == out.doc[7][2][i] IN
                    /\ Len(link) = 3
                    /\ link[1] = <<"source", graph.edges[i].source>>
                    /\ link[2] = <<"target", graph.edges[i].target>>
                    /\ link[3] = <<"weight", graph.edges[i].weight>>
        ELSE KeysOf(out.text) = TopKeys

\* a graph of three nodes and two edges has been serialized as a document
C7_Witness ==
    /\ nJson >= 1 /\ out.raised = NoError /\ out.asDict
    /\ Len(graph.nodes) = 3 /\ Len(graph.edges) = 2
    /\ Len(out.doc[7][2]) = 2

\* C8: two json calls in a row with the same arguments return the same
\* output, and a json call, successful or not, leaves the graph and the
\* parser's protocol, version, revision and metric as they were.
C8_JsonIdempotent ==
    [][pc = "ready" =>
        /\ UNCHANGED <<graph, protocol, version, revision, metric>>
        /\ (nJson >= 1 /\ out'.asDict = out.asDict) => out' = out]_vars

\* the same graph has been serialized twice with success
C8_Witness ==
    /\ nJson >= 2
    /\ out.raised = NoError /\ prevOut.raised = NoError
    /\ out.asDict = prevOut.asDict
    /\ Len(graph.nodes) >= 2
    /\ out = prevOut

\* the links of both graphs that share their pair of endpoints but not their weight
Changed(new, old) ==
    {<<i, j>> \in (1..Len(new.edges)) \X (1..Len(old.edges)) :
        /\ new.edges[i].source = old.edges[j].source
        /\ new.edges[i].target = old.edges[j].target
        /\ new.edges[i].weight # old.edges[j].weight}

\* C9: new - old takes the right operand as the old graph and the left one
\* as the new graph: nodes only the left operand has are added, nodes only
\* the right operand has are removed, and a link both have with different
\* weights is in added.links with the left operand's weight and in
\* removed.links with the right operand's weight.
C9_SubtractionOperands ==
    pc = "subtracted" =>
        /\ Range(delta.added.nodes) = Range(graph.nodes) \ Range(other.graph.nodes)
        /\ Range(delta.removed.nodes) = Range(other.graph.nodes) \ Range(graph.nodes)
        /\ \A c \in Changed(graph, other.graph) :
            /\ graph.edges[c[1]] \in Range(delta.added.links)
            /\ other.graph.edges[c[2]] \in Range(delta.removed.links)
            /\ graph.edges[c[1]] \notin Range(delta.removed.links)
            /\ other.graph.edges[c[2]] \notin Range(delta.added.links)

\* old link (a, b, 5) and new link (a, b, 7) have been subtracted
C9_Witness ==
    /\ pc = "subtracted"
    /\ other.graph.nodes = <<"a", "b">> /\ graph.nodes = <<"a", "b">>
    /\ other.graph.edges = <<[source |-> "a", target |-> "b", weight |-> 5]>>
    /\ graph.edges = <<[source |-> "a", target |-> "b", weight |-> 7]>>
    /\ delta.added.links = <<[source |-> "a", target |-> "b", weight |-> 7]>>
    /\ delta.removed.links = <<[source |-> "a", target |-> "b", weight |-> 5]>>

\* how often a call appears in the log
Count(q, x) == Cardinality({i \in 1..Len(q) : q[i] = x})

\* C10: a concrete parser's constructor invokes parse exactly once, after
\* to_python has returned and with its result; when to_python fails the
\* constructor ends with that error, parse is not invoked and the parser has
\* no graph; the constructor of BaseParser itself never invokes parse.
C10_ParseAfterToPython ==
    pc # "new" =>
        LET r == ToPython(args.data, transport) IN
        /\ events[1] = "to_python"
        /\ (r.raised = NoError /\ ~cls.isBase) =>
               /\ Count(events, "parse") = 1
               /\ events[Len(events)] = "parse"
               /\ parsed = <<r.value>>
               /\ original_data = r.value
        /\ r.raised # NoError =>
               /\ pc = "failed"
               /\ raised = r.raised
               /\ Count(events, "parse") = 0
               /\ parsed = <<>>
               /\ graph.absent
        /\ cls.isBase => Count(events, "parse") = 0 /\ parsed = <<>>

\* a concrete parser has been built from a file's content
C10_Witness ==
    /\ pc = "ready" /\ ~cls.isBase
    /\ args.data.prefix = "./"
    /\ events = <<"to_python", "open", "parse">>
    /\ parsed = <<JDict>>
    /\ ~graph.absent

\* a constructor has failed in to_python
C10_WitnessFailed ==
    /\ pc = "failed" /\ ~cls.isBase
    /\ raised = "ParserJsonError"
    /\ parsed = <<>>

====
